---- MODULE Spec2Model ----
(***************************************************************************)
(* The BCAT alignment service: the scoring engine of bcat-scorer/scorer.py *)
(* and the /score handler of bcat-scorer/api.py; and the polling loop of   *)
(* worker/worker.py.                                                       *)
(*                                                                         *)
(* Python floats are modelled as exact rationals [n, d] in lowest terms    *)
(* (d > 0); the record with d = 0 is Python's None.  JSON values of a      *)
(* Signal Bundle are tagged records (number, string, bool, null, mapping). *)
(* An operator that can raise returns a record with a `raised` field.      *)
(***************************************************************************)
EXTENDS Integers, Sequences, FiniteSets, TLC

VARIABLES
    weights,      \* config/weights.json as load_weights() reads it
    multipliers,  \* config/multipliers.json as load_multipliers() reads it
    patterns,     \* config/patterns.json as load_patterns() reads it (in file order)
    req,          \* the ScoreRequest being served: spiky, pattern_id, pattern_name, bcat_pattern
    pc,           \* "idle": no request in flight; "received": score(req) is about to run; "done": answered
    resp,         \* what score(req) gave the client (a 200 body or a 400 HTTPException)
    runs,         \* the score_one calls of the request: their locals, in call order
    submitted,    \* the Signal Bundle as the caller sent it
    installed,    \* the configuration tables as they were at process start
    earlier,      \* one earlier request of this process and the response it got
    files,        \* worker: the files of IN_DIR, name -> st_mtime (0: no such file)
    seen,         \* worker_loop's local `seen`: the keys "name:mtime" recorded so far
    wpc,          \* worker_loop's position: "sleep", "is_file", "stat" or "process"
    todo,         \* the rest of sorted(IN_DIR.glob("*")) in the current pass
    job,          \* the file version (name, mtime) about to go to process_input
    handed,       \* how many times each file version was handed to process_input
    failures,       \* the file versions whose process_input did not succeed
    skipped       \* the file version the loop last passed over as already seen

svars == <<weights, multipliers, patterns, req, pc, resp, runs, submitted, installed, earlier>>
wvars == <<files, seen, wpc, todo, job, handed, failures, skipped>>
vars == <<svars, wvars>>

-----------------------------------------------------------------------------
(* Exact rational arithmetic standing for Python float arithmetic.         *)

RECURSIVE Gcd(_, _)
Gcd(a, b) == IF b = 0 THEN a ELSE Gcd(b, a % b)

Abs(i) == IF i < 0 THEN -i ELSE i

\* the float n/d
Rat(n, d) ==
    LET g == Gcd(Abs(n), Abs(d))
        s == IF d < 0 THEN -1 ELSE 1
    IN  [n |-> s * (n \div g), d |-> s * (d \div g)]

R(i) == [n |-> i, d |-> 1]

\* Python's None where a float is expected
None == [n |-> 0, d |-> 0]

IsNone(a) == a.d = 0

RAdd(a, b) == Rat(a.n * b.d + b.n * a.d, a.d * b.d)
RSub(a, b) == Rat(a.n * b.d - b.n * a.d, a.d * b.d)
RMul(a, b) == Rat(a.n * b.n, a.d * b.d)
RDiv(a, b) == Rat(a.n * b.d, a.d * b.n)
RLe(a, b) == a.n * b.d <= b.n * a.d
RLt(a, b) == a.n * b.d < b.n * a.d
RAbs(a) == [n |-> Abs(a.n), d |-> a.d]
RMin(a, b) == IF RLt(b, a) THEN b ELSE a
RMax(a, b) == IF RLt(a, b) THEN b ELSE a

RECURSIVE RSum(_)
RSum(seq) == IF seq = <<>> THEN R(0) ELSE RAdd(Head(seq), RSum(Tail(seq)))

\* round(x * 10^2) for a float x >= 0, ties to even: the integer number of hundredths
RoundHundredths(x) ==
    LET num == 100 * x.n
        fl  == num \div x.d
        rem2 == 2 * (num % x.d)
    IN  IF rem2 < x.d THEN fl
        ELSE IF rem2 > x.d THEN fl + 1
        ELSE IF fl % 2 = 0 THEN fl ELSE fl + 1

\* round(x, 2)
round2(x) == Rat(RoundHundredths(x), 100)

-----------------------------------------------------------------------------
(* JSON values of a Signal Bundle, and the Python operations the engine    *)
(* applies to them.                                                        *)

EmptyDict == [k \in {} |-> 0]

Num(q)  == [t |-> "num",  q |-> q,    s |-> "", m |-> EmptyDict]
Str(s)  == [t |-> "str",  q |-> None, s |-> s,  m |-> EmptyDict]
Dict(m) == [t |-> "dict", q |-> None, s |-> "", m |-> m]
Bool(b) == [t |-> "bool", q |-> IF b THEN R(1) ELSE R(0), s |-> "", m |-> EmptyDict]
JNull   == [t |-> "none", q |-> None, s |-> "", m |-> EmptyDict]

\* d.get(k) and d.get(k, default)
Get(d, k) == IF k \in DOMAIN d THEN d[k] ELSE JNull
GetD(d, k, default) == IF k \in DOMAIN d THEN d[k] ELSE default

\* d[k] = v
Put(d, k, v) == (k :> v) @@ d

\* bool(v)
Truthy(v) ==
    CASE v.t = "none" -> FALSE
      [] v.t = "bool" -> v.q = R(1)
      [] v.t = "num"  -> v.q.n # 0
      [] v.t = "str"  -> v.s # ""
      [] v.t = "dict" -> DOMAIN v.m # {}

\* a or b
Or(a, b) == IF Truthy(a) THEN a ELSE b

UpperCase == "ABCDEFGHIJKLMNOPQRSTUVWXYZ"
LowerCase == "abcdefghijklmnopqrstuvwxyz"
Digits == "0123456789"

CharAt(s, i) == SubSeq(s, i, i)

\* the first position of character c in s from position i on, 0 when it is not there
RECURSIVE IndexFrom(_, _, _)
IndexFrom(s, c, i) ==
    IF i > Len(s) THEN 0
    ELSE IF CharAt(s, i) = c THEN i
    ELSE IndexFrom(s, c, i + 1)

IndexOf(s, c) == IndexFrom(s, c, 1)

\* the lower-case letter of each upper-case letter
LowerOf == [c \in {CharAt(UpperCase, i) : i \in 1..Len(UpperCase)} |->
               CharAt(LowerCase, IndexOf(UpperCase, c))]

\* str.lower()
RECURSIVE lower(_)
lower(s) ==
    IF s = "" THEN ""
    ELSE LET c == CharAt(s, 1)
         IN  (IF c \in DOMAIN LowerOf THEN LowerOf[c] ELSE c) \o lower(SubSeq(s, 2, Len(s)))

\* str.startswith(prefix)
startswith(s, prefix) == Len(s) >= Len(prefix) /\ SubSeq(s, 1, Len(prefix)) = prefix

IsDigits(s) == \A i \in 1..Len(s) : IndexOf(Digits, CharAt(s, i)) # 0

RECURSIVE DigitsToInt(_)
DigitsToInt(s) ==
    IF s = "" THEN 0
    ELSE 10 * DigitsToInt(SubSeq(s, 1, Len(s) - 1)) + (IndexOf(Digits, CharAt(s, Len(s))) - 1)

RECURSIVE Pow10(_)
Pow10(k) == IF k = 0 THEN 1 ELSE 10 * Pow10(k - 1)

\* float(s) for a string: an optional sign, digits, an optional point and digits;
\* None stands for ValueError
ParseFloat(s) ==
    LET neg   == Len(s) > 0 /\ CharAt(s, 1) = "-"
        body  == IF Len(s) > 0 /\ CharAt(s, 1) \in {"-", "+"} THEN SubSeq(s, 2, Len(s)) ELSE s
        dot   == IndexOf(body, ".")
        whole == IF dot = 0 THEN body ELSE SubSeq(body, 1, dot - 1)
        frac  == IF dot = 0 THEN "" ELSE SubSeq(body, dot + 1, Len(body))
    IN  IF IsDigits(whole) /\ IsDigits(frac) /\ Len(whole) + Len(frac) > 0
        THEN Rat((IF neg THEN -1 ELSE 1) * DigitsToInt(whole \o frac), Pow10(Len(frac)))
        ELSE None

\* float(v); None stands for the TypeError or ValueError float() raises
FloatOf(v) ==
    CASE v.t = "num"  -> v.q
      [] v.t = "bool" -> v.q
      [] v.t = "str"  -> ParseFloat(v.s)
      [] OTHER        -> None

\* a + b; JNull stands for TypeError
PyAdd(a, b) ==
    IF a.t \in {"num", "bool"} /\ b.t \in {"num", "bool"} THEN Num(RAdd(a.q, b.q))
    ELSE IF a.t = "str" /\ b.t = "str" THEN Str(a.s \o b.s)
    ELSE JNull

\* 0.5 * v; JNull stands for TypeError
PyHalf(v) == IF v.t \in {"num", "bool"} THEN Num(RMul(Rat(1, 2), v.q)) ELSE JNull

-----------------------------------------------------------------------------
(* Scalar normalizers.                                                     *)

clamp(x, lo, hi) == RMax(lo, RMin(hi, x))

\* to100 once f = float(v) is known (None: float() raised)
to100_f(f) ==
    IF IsNone(f) THEN None
    ELSE clamp(IF RLe(f, R(1)) THEN RMul(f, R(100)) ELSE f, R(0), R(100))

to100(v) == to100_f(FloatOf(v))

\* inv100 once x = to100(v) is known
inv100_x(x) == IF IsNone(x) THEN None ELSE RSub(R(100), x)

inv100(v) == inv100_x(to100(v))

\* minmax once f = float(v) is known
minmax_f(f, vmin, vmax) ==
    IF IsNone(f) THEN None
    ELSE IF vmin = vmax THEN R(0)
    ELSE clamp(RMul(RDiv(RSub(f, vmin), RSub(vmax, vmin)), R(100)), R(0), R(100))

minmax(v, vmin, vmax) == minmax_f(FloatOf(v), vmin, vmax)

\* talk_balance_score once r = float(ratio) is known
talk_balance_r(r) ==
    IF IsNone(r) THEN None
    ELSE clamp(RSub(R(100), RMul(RAbs(RSub(r, Rat(1, 2))), R(200))), R(0), R(100))

talk_balance_score(ratio) == talk_balance_r(FloatOf(ratio))

\* the entries of a sequence that are not None
NotNone(vals) == SelectSeq(vals, LAMBDA x : ~IsNone(x))

_avg(vals) ==
    LET v == NotNone(vals)
    IN  IF v = <<>> THEN None ELSE RDiv(RSum(v), R(Len(v)))

_wavg(vals, ws) ==
    LET n   == IF Len(vals) < Len(ws) THEN Len(vals) ELSE Len(ws)
        idx == SelectSeq([i \in 1..n |-> i], LAMBDA i : ~IsNone(vals[i]))
        sw  == RSum([j \in 1..Len(idx) |-> ws[idx[j]]])
    IN  IF idx = <<>> THEN None
        ELSE IF RLe(sw, R(0)) THEN None
        ELSE RDiv(RSum([j \in 1..Len(idx) |-> RMul(vals[idx[j]], ws[idx[j]])]), sw)

-----------------------------------------------------------------------------
(* normalize_metrics.  Its locals are the record                            *)
(*   [raised, out, L, V, F, I, H, shared]                                  *)
(* and each block of the function is an operator from locals to locals;    *)
(* a block that raises sets `raised` and the blocks after it do not run.   *)

Raise(st) == [st EXCEPT !.raised = TRUE]

SetOut(st, k, v) == [st EXCEPT !.out = Put(st.out, k, v)]

\* L = spiky.get(name) or {}: the section itself, not a copy of it
SectionDictShared(spiky, name) ==
    LET v == Or(Get(spiky, name), Dict(EmptyDict))
    IN  IF v.t = "dict" THEN [raised |-> FALSE, m |-> v.m, shared |-> Truthy(Get(spiky, name))]
        ELSE [raised |-> TRUE, m |-> EmptyDict, shared |-> FALSE]

\* dict(spiky.get(name) or {}): [raised, m, shared].  m is the local mapping; raised
\* stands for dict() of a section that is no mapping; shared tells whether the local
\* is the caller's own object (never, since dict() builds a new one)
SectionDict(spiky, name) ==
    LET v == Or(Get(spiky, name), Dict(EmptyDict))
    IN  IF v.t = "dict" THEN [raised |-> FALSE, m |-> v.m, shared |-> FALSE]
        ELSE [raised |-> TRUE, m |-> EmptyDict, shared |-> FALSE]

\* the sum of f[k] over the keys in S
RECURSIVE SumOver(_, _)
SumOver(S, f) ==
    IF S = {} THEN R(0)
    ELSE LET k == CHOOSE x \in S : TRUE IN RAdd(f[k], SumOver(S \ {k}, f))

\* 100.0 - (neg * 100.0 if neg <= 1 else neg)
NegativityInv(neg) == RSub(R(100), IF RLe(neg, R(1)) THEN RMul(neg, R(100)) ELSE neg)

\* p + 0.5*neu
PositivityMix(p, neu) == RAdd(p, RMul(Rat(1, 2), neu))

PositivityBlock(st) ==
    LET L == st.L
        positivity == Get(L, "positivity")
        pos_classes == Or(Get(L, "positivity_classes"),
                          Or(Get(L, "polarity"),
                             IF positivity.t = "dict" THEN positivity ELSE JNull))
    IN  IF pos_classes.t = "dict"
        THEN LET p   == FloatOf(GetD(pos_classes.m, "positive", Num(R(0))))
                 neu == FloatOf(GetD(pos_classes.m, "neutral", Num(R(0))))
                 neg == FloatOf(GetD(pos_classes.m, "negative", Num(R(0))))
             IN  IF IsNone(p) \/ IsNone(neu) \/ IsNone(neg) THEN Raise(st)
                 ELSE SetOut(SetOut(st, "positivity", to100(Num(PositivityMix(p, neu)))),
                             "negativity_inv", NegativityInv(neg))
        ELSE IF "positivity" \in DOMAIN L
        THEN SetOut(st, "positivity", to100(L["positivity"]))
        ELSE st

ObjectivityBlock(st) ==
    LET obj == Get(st.L, "objectivity")
    IN  IF obj.t = "dict" THEN SetOut(st, "objectivity", to100(GetD(obj.m, "objective", Num(R(0)))))
        ELSE IF obj.t # "none" THEN SetOut(st, "objectivity", to100(obj))
        ELSE st

FillerBlock(st) ==
    IF "filler_ratio" \in DOMAIN st.L
    THEN SetOut(st, "filler_inv", inv100(Get(st.L, "filler_ratio"))) ELSE st

SentenceLenBlock(st) ==
    IF "avg_sentence_len" \in DOMAIN st.L
    THEN SetOut(st, "avg_sentence_len_norm", minmax(Get(st.L, "avg_sentence_len"), R(4), R(25)))
    ELSE st

PatienceBlock(st) ==
    IF "patience" \in DOMAIN st.L
    THEN SetOut(st, "patience_norm", minmax(Get(st.L, "patience"), R(0), R(180))) ELSE st

KeywordsBlock(st) ==
    LET kw == Get(st.L, "keywords")
    IN  IF kw.t = "dict" /\ Truthy(kw)
        THEN LET keys == {k \in DOMAIN kw.m : ~IsNone(to100(kw.m[k]))}
                 vals == [k \in keys |-> to100(kw.m[k])]
             IN  IF keys # {}
                 THEN SetOut(st, "kw_strength", RDiv(SumOver(keys, vals), R(Cardinality(keys))))
                 ELSE st
        ELSE st

CuriosityBlock(st) ==
    IF "lang_emo_curiosity" \in DOMAIN st.L
    THEN SetOut(st, "lang_emo_curiosity", to100(Get(st.L, "lang_emo_curiosity"))) ELSE st

QuestionBlock(st) ==
    LET L0 == st.L
        q0 == Get(L0, "question")
        L1 == IF q0.t = "str"
              THEN Put(L0, "question",
                       Num(IF startswith(lower(q0.s), "question") THEN R(1) ELSE R(0)))
              ELSE L0
        L2 == IF "question_ratio" \notin DOMAIN L1 /\ "question" \in DOMAIN L1
              THEN LET f  == FloatOf(L1["question"])
                       qv == IF ~IsNone(f) THEN f
                             ELSE IF Truthy(L1["question"]) THEN R(1) ELSE R(0)
                   IN  Put(L1, "question_ratio", Num(qv))
              ELSE L1
        st2 == [st EXCEPT !.L = L2]
    IN  IF "question_ratio" \in DOMAIN L2
        THEN SetOut(st2, "question_ratio", to100(L2["question_ratio"])) ELSE st2

OffensivenessBlock(st) ==
    LET L0 == st.L
        o0 == Get(L0, "offensiveness")
        L1 == IF o0.t = "str"
              THEN Put(L0, "offensiveness",
                       Num(IF startswith(lower(o0.s), "offen") THEN R(1) ELSE R(0)))
              ELSE L0
        st2 == [st EXCEPT !.L = L1]
    IN  IF "offensiveness" \in DOMAIN L1
        THEN SetOut(st2, "offensiveness_inv", inv100(L1["offensiveness"])) ELSE st2

\* V["energy"] <= 1 is defined for numbers and bools only
EnergyScaled(e) == IF RLe(e.q, R(1)) THEN e ELSE Num(RDiv(e.q, R(100)))

EnergyOut(st) ==
    IF "energy" \in DOMAIN st.V
    THEN LET e == st.V["energy"]
         IN  IF e.t \in {"num", "bool"}
             THEN SetOut(st, "energy", to100(EnergyScaled(e)))
             ELSE Raise(st)
    ELSE st

EnergyBlock(st) ==
    LET e0 == Get(st.V, "energy")
    IN  IF e0.t = "dict"
        THEN LET ener == FloatOf(GetD(e0.m, "energetic", Num(R(0))))
                 mono == FloatOf(GetD(e0.m, "monotonic", Num(R(0))))
             IN  IF IsNone(ener) \/ IsNone(mono) THEN Raise(st)
                 ELSE EnergyOut([st EXCEPT !.V = Put(st.V, "energy",
                          Num(IF RLt(R(0), ener) THEN ener ELSE RSub(R(1), mono)))])
        ELSE EnergyOut(st)

\* (d.get(a, 0.0) or 0.0) + (d.get(b, 0.0) or 0.0)
BucketSum(d, a, b) ==
    PyAdd(Or(GetD(d, a, Num(R(0))), Num(R(0))), Or(GetD(d, b, Num(R(0))), Num(R(0))))

VocalEmotionsBlock(st) ==
    LET ve == Or(Get(st.V, "emotions"), Dict(EmptyDict))
    IN  IF ve.t = "dict" /\ Truthy(ve)
        THEN LET emo_pos == Get(ve.m, "happy")
                 emo_neu == Get(ve.m, "neutral")
                 emo_neg == BucketSum(ve.m, "sad", "angry")
                 s1 == IF emo_pos.t # "none" THEN SetOut(st, "emo_pos", to100(emo_pos)) ELSE st
                 s2 == IF emo_neu.t # "none" THEN SetOut(s1, "emo_neu", to100(emo_neu)) ELSE s1
             IN  IF emo_neg.t = "none" THEN Raise(st)
                 ELSE SetOut(s2, "emo_neg_inv", inv100(emo_neg))
        ELSE st

AttentionBlock(st) ==
    LET att == Or(Get(st.F, "attention"), Dict(EmptyDict))
    IN  IF att.t = "dict" /\ Truthy(att)
        THEN LET att_att  == Get(att.m, "attentive")
                 att_norm == Get(att.m, "normal")
                 att_dist == Get(att.m, "distracted")
                 has_val  == att_att.t # "none" \/ att_norm.t # "none"
                 half     == PyHalf(Or(att_norm, Num(R(0))))
                 att_val  == IF half.t = "none" THEN JNull
                             ELSE PyAdd(Or(att_att, Num(R(0))), half)
                 s1 == IF has_val THEN SetOut(st, "attention_att", to100(att_val)) ELSE st
             IN  IF has_val /\ att_val.t = "none" THEN Raise(st)
                 ELSE IF att_dist.t # "none"
                 THEN SetOut(s1, "attention_dist_inv", inv100(att_dist))
                 ELSE s1
        ELSE st

FacialEmotionsBlock(st) ==
    LET fe == Or(Get(st.F, "emotions"), Dict(EmptyDict))
    IN  IF fe.t = "dict" /\ Truthy(fe)
        THEN LET pos == Get(fe.m, "happy")
                 neu == BucketSum(fe.m, "neutral", "surprised")
                 dis == BucketSum(fe.m, "dissatisfied", "annoyed")
                 s1 == IF pos.t # "none" THEN SetOut(st, "facial_emo_pos", to100(pos)) ELSE st
             IN  IF neu.t = "none" \/ dis.t = "none" THEN Raise(st)
                 ELSE SetOut(SetOut(s1, "facial_emo_neu", to100(neu)),
                             "facial_emo_dis_inv", inv100(dis))
        ELSE st

InteractionBlock(st) ==
    LET s1 == IF "talk_listen" \in DOMAIN st.I
              THEN SetOut(st, "talk_balance", talk_balance_score(st.I["talk_listen"])) ELSE st
    IN  IF "speed_wpm" \in DOMAIN st.I
        THEN SetOut(s1, "speed_norm", minmax(st.I["speed_wpm"], R(90), R(180))) ELSE s1

HighlevelBlock(st) ==
    LET s1 == IF "action_items" \in DOMAIN st.H
              THEN SetOut(st, "action_items", to100(st.H["action_items"])) ELSE st
    IN  IF "followup_questions" \in DOMAIN st.H
        THEN SetOut(s1, "followup_questions", to100(st.H["followup_questions"])) ELSE s1

\* run block B unless an earlier block raised
Then(st, B(_)) == IF st.raised THEN st ELSE B(st)

\* the locals of normalize_metrics(spiky) when it returns or raises; `out` is its result
normalize_metrics(spiky) ==
    LET Ls == SectionDict(spiky, "language")
        Vs == SectionDict(spiky, "vocal")
        Fs == SectionDict(spiky, "facial")
        Is == SectionDict(spiky, "interaction")
        Hs == SectionDict(spiky, "highlevel")
        s0 == [raised |-> Ls.raised \/ Vs.raised \/ Fs.raised \/ Is.raised \/ Hs.raised,
               out |-> EmptyDict, L |-> Ls.m, V |-> Vs.m, F |-> Fs.m, I |-> Is.m, H |-> Hs.m,
               shared |-> [language |-> Ls.shared, vocal |-> Vs.shared]]
        s1  == Then(s0, PositivityBlock)
        s2  == Then(s1, ObjectivityBlock)
        s3  == Then(s2, FillerBlock)
        s4  == Then(s3, SentenceLenBlock)
        s5  == Then(s4, PatienceBlock)
        s6  == Then(s5, KeywordsBlock)
        s7  == Then(s6, CuriosityBlock)
        s8  == Then(s7, QuestionBlock)
        s9  == Then(s8, OffensivenessBlock)
        s10 == Then(s9, EnergyBlock)
        s11 == Then(s10, VocalEmotionsBlock)
        s12 == Then(s11, AttentionBlock)
        s13 == Then(s12, FacialEmotionsBlock)
        s14 == Then(s13, InteractionBlock)
    IN  Then(s14, HighlevelBlock)

-----------------------------------------------------------------------------
(* Naturals too large for a machine integer, as little-endian sequences of *)
(* base-1000 digits without leading zeros (<<>> is 0); used to round the   *)
(* cosine exactly.                                                         *)

RECURSIVE BigFrom(_)
BigFrom(c) == IF c = 0 THEN <<>> ELSE <<c % 1000>> \o BigFrom(c \div 1000)

RECURSIVE BigAddCarry(_, _, _)
BigAddCarry(a, b, c) ==
    IF a = <<>> /\ b = <<>> THEN BigFrom(c)
    ELSE LET x == (IF a = <<>> THEN 0 ELSE Head(a)) + (IF b = <<>> THEN 0 ELSE Head(b)) + c
         IN  <<x % 1000>> \o BigAddCarry(IF a = <<>> THEN a ELSE Tail(a),
                                            IF b = <<>> THEN b ELSE Tail(b), x \div 1000)

BigAdd(a, b) == BigAddCarry(a, b, 0)

RECURSIVE BigMulCarry(_, _, _)
BigMulCarry(b, m, c) ==
    IF b = <<>> THEN BigFrom(c)
    ELSE LET x == Head(b) * m + c
         IN  <<x % 1000>> \o BigMulCarry(Tail(b), m, x \div 1000)

\* b * m for a big b and an integer 0 < m < 2 000 000
BigMul(b, m) == BigMulCarry(b, m, 0)

\* a * b for big a, b
RECURSIVE BigTimes(_, _)
BigTimes(a, b) ==
    IF a = <<>> \/ b = <<>> THEN <<>>
    ELSE LET rest == BigTimes(a, Tail(b))
             high == IF rest = <<>> THEN <<>> ELSE <<0>> \o rest
         IN  IF Head(b) = 0 THEN high ELSE BigAdd(BigMul(a, Head(b)), high)

RECURSIVE BigLeFrom(_, _, _)
BigLeFrom(a, b, i) ==
    IF i = 0 THEN TRUE
    ELSE IF a[i] # b[i] THEN a[i] < b[i]
    ELSE BigLeFrom(a, b, i - 1)

\* a <= b
BigLe(a, b) == IF Len(a) # Len(b) THEN Len(a) < Len(b) ELSE BigLeFrom(a, b, Len(a))

-----------------------------------------------------------------------------
(* The pipeline stages after normalisation.                                *)

Factors == <<"Precision", "Resolve", "Innovation", "Harmony">>
FactorSet == {Factors[i] : i \in 1..Len(Factors)}
Ranks == <<"primary", "secondary", "tertiary", "quaternary">>

CuratedNames ==
    {"objectivity", "clarity_conciseness", "energy", "decision_orientation",
     "followup_questions", "novelty_ideation", "attention_listening", "talk_balance",
     "patience", "positivity_tone"}

\* norm.get(k) on the Normalized Sub-Metric Set
NormGet(norm, k) == IF k \in DOMAIN norm THEN norm[k] ELSE None

\* cur, before the entries that are None are dropped
CuratedAll(norm) ==
    [k \in CuratedNames |->
        CASE k = "objectivity" -> NormGet(norm, "objectivity")
          [] k = "clarity_conciseness" ->
                _avg(<<NormGet(norm, "filler_inv"), NormGet(norm, "avg_sentence_len_norm")>>)
          [] k = "energy" -> NormGet(norm, "energy")
          [] k = "decision_orientation" -> NormGet(norm, "action_items")
          [] k = "followup_questions" -> NormGet(norm, "followup_questions")
          [] k = "novelty_ideation" ->
                _avg(<<NormGet(norm, "kw_strength"), NormGet(norm, "lang_emo_curiosity")>>)
          [] k = "attention_listening" ->
                _wavg(<<NormGet(norm, "attention_att"), NormGet(norm, "attention_dist_inv")>>,
                      <<Rat(7, 10), Rat(3, 10)>>)
          [] k = "talk_balance" -> NormGet(norm, "talk_balance")
          [] k = "patience" -> NormGet(norm, "patience_norm")
          [] k = "positivity_tone" ->
                _avg(<<NormGet(norm, "positivity"), NormGet(norm, "emo_pos"),
                       NormGet(norm, "emo_neg_inv")>>)]

\* {k: float(v or 0.0) for k, v in cur.items()}: an absent metric becomes 0
CuratedZeroFilled(norm) ==
    LET cur == CuratedAll(norm)
    IN  [k \in CuratedNames |-> IF IsNone(cur[k]) THEN R(0) ELSE cur[k]]

\* {k: float(v) for k, v in cur.items() if v is not None}
build_curated_metrics(norm) ==
    LET cur == CuratedAll(norm)
    IN  [k \in {x \in CuratedNames : ~IsNone(cur[x])} |-> cur[k]]

\* sum(row.values()) or 1.0
RowTotal(row) ==
    LET total == SumOver(DOMAIN row, row)
    IN  IF total.n = 0 THEN R(1) ELSE total

\* float(s) * float(w): the row weight taken as it is, not divided by the row's total
ContributionUnnormalized(curated, W, m, f) ==
    IF f \in DOMAIN W[m] THEN RMul(curated[m], W[m][f]) ELSE R(0)

\* what metric m adds to bases[f]: float(s) * (float(w)/total), nothing when the row lacks f
Contribution(curated, W, m, f) ==
    IF f \in DOMAIN W[m]
    THEN RMul(curated[m], RDiv(W[m][f], RowTotal(W[m])))
    ELSE R(0)

\* bases[k] left as accumulated
BaseUnclamped(x) == x

\* the last step of base_factors: bases[k] = clamp(bases[k], 0.0, 100.0)
BaseClamp(x) == clamp(x, R(0), R(100))

\* [raised, bases]: raised is the KeyError of a row that names no factor
base_factors(curated, W) ==
    LET used == DOMAIN curated \cap DOMAIN W
        acc  == [f \in FactorSet |->
                    SumOver(used, [m \in used |-> Contribution(curated, W, m, f)])]
    IN  IF \E m \in used : ~(DOMAIN W[m] \subseteq FactorSet)
        THEN [raised |-> TRUE, bases |-> [f \in FactorSet |-> R(0)]]
        ELSE [raised |-> FALSE, bases |-> [f \in FactorSet |-> BaseClamp(acc[f])]]

\* pmap.get(f, "quaternary") for pmap = {order[0]: "primary", ..., order[3]: "quaternary"}:
\* a name that order repeats keeps the label of its last position
RankLabel(order, f) ==
    IF \E i \in 1..4 : order[i] = f
    THEN Ranks[CHOOSE i \in 1..4 : order[i] = f /\ \A j \in (i + 1)..4 : order[j] # f]
    ELSE "quaternary"

\* out[f] = clamp(base * mult, 0.0, 100.0)
PatternClamp(x) == clamp(x, R(0), R(100))

\* [raised, scores]: raised is the IndexError of an order shorter than 4
apply_pattern(bases, order, M) ==
    IF Len(order) < 4
    THEN [raised |-> TRUE, scores |-> bases]
    ELSE [raised |-> FALSE,
          scores |-> [f \in DOMAIN bases |->
              PatternClamp(RMul(bases[f], GetD(M, RankLabel(order, f), R(1))))]]

RECURSIVE Lcm4(_)
Lcm4(ds) ==
    IF ds = <<>> THEN 1
    ELSE LET l == Lcm4(Tail(ds)) IN (Head(ds) \div Gcd(Head(ds), l)) * l

\* a vector of floats as the shortest integer vector of the same direction
\* (the cosine depends on the directions only)
Direction(v) ==
    LET l    == Lcm4([i \in 1..Len(v) |-> v[i].d])
        ints == [i \in 1..Len(v) |-> v[i].n * (l \div v[i].d)]
        g    == Gcd(Gcd(Abs(ints[1]), Abs(ints[2])), Gcd(Abs(ints[3]), Abs(ints[4])))
    IN  IF g = 0 THEN ints ELSE [i \in 1..Len(v) |-> ints[i] \div g]

\* sum(x*y for x, y in zip(a, b)) for vectors of naturals, as a big natural
Dot(a, b) ==
    BigAdd(BigAdd(BigTimes(BigFrom(a[1]), BigFrom(b[1])), BigTimes(BigFrom(a[2]), BigFrom(b[2]))),
           BigAdd(BigTimes(BigFrom(a[3]), BigFrom(b[3])), BigTimes(BigFrom(a[4]), BigFrom(b[4]))))

\* k/10000 <= cos + 1/20000 where cos = dot / sqrt(tt * ss), that is
\* (2k - 1)^2 * tt * ss <= (20000 * dot)^2; tts is tt * ss and dots is (20000 * dot)^2
HalfReached(k, tts, dots) ==
    k = 0 \/ BigLe(BigMul(BigMul(tts, 2 * k - 1), 2 * k - 1), dots)

\* the largest k in lo..hi with HalfReached(k), which holds at lo
RECURSIVE NearestFrom(_, _, _, _)
NearestFrom(lo, hi, tts, dots) ==
    IF lo = hi THEN lo
    ELSE LET mid == (lo + hi + 1) \div 2
         IN  IF HalfReached(mid, tts, dots)
             THEN NearestFrom(mid, hi, tts, dots)
             ELSE NearestFrom(lo, mid - 1, tts, dots)

\* [raised, align]: raised is the KeyError of an order that names no factor.  The
\* cosine is irrational in general: align is its value as round(align, 2) gives it,
\* which is all score_one keeps.  `sqrt(..) or 1.0` matters only for a zero vector,
\* where dot is 0 as well; a vector with a negative entry is not met, the scores
\* being clamped and the multipliers positive.
cosine_alignment(scores, order, M) ==
    IF \E i \in 1..4 : order[i] \notin DOMAIN scores
    THEN [raised |-> TRUE, align |-> R(0)]
    ELSE LET tvec == Direction([i \in 1..4 |-> M[Ranks[i]]])
             svec == Direction([i \in 1..4 |-> scores[order[i]]])
             dot  == Dot(svec, tvec)
             d2   == BigMul(dot, 20000)
         IN  [raised |-> FALSE,
              align |-> IF dot = <<>> THEN R(0)
                        ELSE Rat(NearestFrom(0, 10000,
                                    BigTimes(Dot(tvec, tvec), Dot(svec, svec)),
                                    BigTimes(d2, d2)), 100)]

-----------------------------------------------------------------------------
(* score_one, score_all_patterns and the /score handler.                   *)

\* Optional[...] fields and values: <<>> is None, <<x>> is x
NoneOpt == <<>>
Some(x) == <<x>>

\* what the caller's Signal Bundle holds once normalize_metrics has run: a section
\* whose local mapping is the caller's own object shows the writes made to the local
SpikyAfter(spiky, st) ==
    [name \in DOMAIN spiky |->
        CASE name = "language" /\ st.shared["language"] -> Dict(st.L)
          [] name = "vocal" /\ st.shared["vocal"] -> Dict(st.V)
          [] OTHER -> spiky[name]]

\* {k.lower(): v for k, v in d.items()}
LowerKeys(d) ==
    LET low == [k \in DOMAIN d |-> lower(k)]
    IN  [x \in {low[k] : k \in DOMAIN d} |-> d[CHOOSE k \in DOMAIN d : low[k] = x]]

StageNames ==
    <<"normalize_metrics", "build_curated_metrics", "base_factors", "apply_pattern",
      "cosine_alignment">>

ZeroVector == [f \in FactorSet |-> R(0)]

\* the locals of score_one(spiky, order) when it returns or raises: `ran` lists the
\* stages that were called, `failed` is the stage that raised ("" when none did),
\* `result` is the returned mapping, `spiky` the caller's bundle after the call
ScoreOneLocals(spiky, order, st, s_cur, bf, ap, ca) ==
    LET nran   == IF st.raised THEN 1 ELSE IF bf.raised THEN 3 ELSE IF ap.raised THEN 4 ELSE 5
        failed == IF st.raised THEN "normalize_metrics"
                  ELSE IF bf.raised THEN "base_factors"
                  ELSE IF ap.raised THEN "apply_pattern"
                  ELSE IF ca.raised THEN "cosine_alignment"
                  ELSE ""
    IN  [raised |-> failed # "",
         failed |-> failed,
         error  |-> CASE failed = "" -> ""
                      [] failed = "normalize_metrics" -> "TypeError or ValueError in normalize_metrics"
                      [] failed = "base_factors" -> "KeyError in base_factors"
                      [] failed = "apply_pattern" -> "list index out of range"
                      [] failed = "cosine_alignment" -> "KeyError in cosine_alignment",
         ran    |-> SubSeq(StageNames, 1, nran),
         order  |-> order,
         s_norm |-> IF st.raised THEN EmptyDict ELSE st.out,
         s_cur  |-> IF st.raised THEN EmptyDict ELSE s_cur,
         bases  |-> IF st.raised \/ bf.raised THEN ZeroVector ELSE bf.bases,
         scores |-> IF st.raised \/ bf.raised \/ ap.raised THEN ZeroVector ELSE ap.scores,
         spiky  |-> SpikyAfter(spiky, st),
         result |-> IF failed # "" THEN EmptyDict
                    ELSE [factors |-> LowerKeys([f \in DOMAIN ap.scores |-> round2(ap.scores[f])]),
                          alignment_pct |-> round2(ca.align),
                          normalized_metrics |-> [curated |-> s_cur, raw |-> st.out]]]

\* score_one from `scores = apply_pattern(...)` on
ScoreOneScored(spiky, order, M, st, s_cur, bf, ap) ==
    ScoreOneLocals(spiky, order, st, s_cur, bf, ap, cosine_alignment(ap.scores, order, M))

\* score_one from `bases = base_factors(...)` on
ScoreOneBased(spiky, order, M, st, s_cur, bf) ==
    ScoreOneScored(spiky, order, M, st, s_cur, bf, apply_pattern(bf.bases, order, M))

\* score_one from `s_cur = build_curated_metrics(...)` on
ScoreOneCurated(spiky, order, W, M, st, s_cur) ==
    ScoreOneBased(spiky, order, M, st, s_cur, base_factors(s_cur, W))

\* score_one from `s_norm = normalize_metrics(...)` on
ScoreOneNormalized(spiky, order, W, M, st) ==
    ScoreOneCurated(spiky, order, W, M, st, build_curated_metrics(st.out))

score_one(spiky, order, W, M) ==
    ScoreOneNormalized(spiky, order, W, M, normalize_metrics(spiky))

\* {**res, "pattern": {"id": id, "name": name, "order": order}}
WithPattern(res, id, name, order) ==
    [pattern |-> [id |-> id, name |-> name, order |-> order],
     factors |-> res.factors,
     alignment_pct |-> res.alignment_pct,
     normalized_metrics |-> res.normalized_metrics]

\* (best is None) or (res["alignment_pct"] >= best["alignment_pct"])
PromotesOnTie(res, best) ==
    best = NoneOpt \/ RLe(best[1].alignment_pct, res.alignment_pct)

\* (best is None) or (res["alignment_pct"] > best["alignment_pct"])
Promotes(res, best) ==
    best = NoneOpt \/ RLt(best[1].alignment_pct, res.alignment_pct)

\* int(pid) for a catalog key; NoneOpt stands for ValueError
IntOf(pid) == IF pid # "" /\ IsDigits(pid) THEN Some(DigitsToInt(pid)) ELSE NoneOpt

\* all_scores[pinfo["name"]] = entry
RecordByName(all, pinfo, entry) == Put(all, pinfo.name, entry)

\* all_scores[pid] = entry
Record(all, pinfo, entry) == Put(all, pinfo.id, entry)

\* one pass of the loop body of score_all_patterns once res = score_one(...) and
\* id = int(pid) are known; acc holds the locals
LoopBodyScored(acc, pinfo, run, id) ==
    IF run.raised
    THEN [acc EXCEPT !.raised = TRUE, !.error = run.error,
                     !.runs = Append(acc.runs, run), !.spiky = run.spiky]
    ELSE IF id = NoneOpt
    THEN [acc EXCEPT !.raised = TRUE, !.error = "invalid literal for int()",
                     !.runs = Append(acc.runs, run), !.spiky = run.spiky]
    ELSE [acc EXCEPT !.runs = Append(acc.runs, run),
                     !.spiky = run.spiky,
                     !.all = Record(acc.all, pinfo,
                                    WithPattern(run.result, id, pinfo.name, pinfo.order)),
                     !.best = IF Promotes(run.result, acc.best)
                              THEN Some(WithPattern(run.result, id, pinfo.name, pinfo.order))
                              ELSE acc.best]

\* one pass of the loop body of score_all_patterns for the catalog entry pinfo
LoopBody(acc, pinfo, W, M) ==
    LoopBodyScored(acc, pinfo, score_one(acc.spiky, pinfo.order, W, M), IntOf(pinfo.id))

\* the loop of score_all_patterns from catalog entry i on; an exception ends it
RECURSIVE ScoreAllFrom(_, _, _, _, _)
ScoreAllFrom(i, acc, P, W, M) ==
    IF i > Len(P) \/ acc.raised THEN acc
    ELSE ScoreAllFrom(i + 1, LoopBody(acc, P[i], W, M), P, W, M)

score_all_patterns(spiky, P, W, M) ==
    ScoreAllFrom(1, [raised |-> FALSE, error |-> "", best |-> NoneOpt, all |-> EmptyDict,
                     runs |-> <<>>, spiky |-> spiky], P, W, M)

\* bool(x) for the Optional[int], Optional[str] and Optional[List[str]] fields
IdTruthy(o) == o # NoneOpt /\ o[1] # 0
NameTruthy(o) == o # NoneOpt /\ o[1] # ""
ListTruthy(o) == o # NoneOpt /\ o[1] # <<>>

\* the catalog keys, and the catalog entry of a key
PatternKeys(P) == {P[i].id : i \in 1..Len(P)}
PatternAt(P, key) == P[CHOOSE i \in 1..Len(P) : P[i].id = key]

\* the indexes of the catalog entries whose name equals pattern_name, case ignored
NameMatches(P, name) == {i \in 1..Len(P) : lower(P[i].name) = lower(name)}

\* the default the handler falls back to
DefaultPatternKey == "15"

\* the order the handler scores against: [raised, error, order]
ResolveOrder(r, P) ==
    IF ListTruthy(r.bcat_pattern)
    THEN [raised |-> FALSE, error |-> "", order |-> r.bcat_pattern[1]]
    ELSE IF IdTruthy(r.pattern_id) /\ ToString(r.pattern_id[1]) \in PatternKeys(P)
    THEN [raised |-> FALSE, error |-> "", order |-> PatternAt(P, ToString(r.pattern_id[1])).order]
    ELSE IF NameTruthy(r.pattern_name)
    THEN LET hits == NameMatches(P, r.pattern_name[1])
         IN  IF hits = {}
             THEN [raised |-> TRUE, error |-> "pattern_name not found", order |-> <<>>]
             ELSE [raised |-> FALSE, error |-> "",
                   order |-> P[CHOOSE i \in hits : \A j \in hits : i <= j].order]
    ELSE IF DefaultPatternKey \in PatternKeys(P)
    THEN [raised |-> FALSE, error |-> "", order |-> PatternAt(P, DefaultPatternKey).order]
    ELSE [raised |-> TRUE, error |-> "'15'", order |-> <<>>]

\* raise HTTPException(status_code=400, detail=str(e))
HttpError(detail) == [status |-> 400, body |-> [detail |-> detail]]

Ok(body) == [status |-> 200, body |-> body]

\* the `all` of a single-pattern response
SingleAll == EmptyDict

\* the single-pattern branch of score once the order is resolved and scored
ScoreSingle(r, ro, run) ==
    IF ro.raised
    THEN [resp |-> HttpError(ro.error), runs |-> <<>>, spiky |-> r.spiky]
    ELSE IF run.raised
    THEN [resp |-> HttpError(run.error), runs |-> <<run>>, spiky |-> run.spiky]
    ELSE [resp |-> Ok([best |-> Some(WithPattern(run.result, NoneOpt, "custom", ro.order)),
                       all |-> SingleAll]),
          runs |-> <<run>>, spiky |-> run.spiky]

\* the single-pattern branch of score once the order is resolved
ScoreResolved(r, ro, W, M) == ScoreSingle(r, ro, score_one(r.spiky, ro.order, W, M))

\* the catalog branch of score once sa = score_all_patterns(...) is known
ScoreCatalog(sa) ==
    IF sa.raised
    THEN [resp |-> HttpError(sa.error), runs |-> sa.runs, spiky |-> sa.spiky]
    ELSE [resp |-> Ok([best |-> sa.best, all |-> sa.all]),
          runs |-> sa.runs, spiky |-> sa.spiky]

\* POST /score: [resp, runs, spiky]
score(r, P, W, M) ==
    IF IdTruthy(r.pattern_id) \/ NameTruthy(r.pattern_name) \/ ListTruthy(r.bcat_pattern)
    THEN ScoreResolved(r, ResolveOrder(r, P), W, M)
    ELSE ScoreCatalog(score_all_patterns(r.spiky, P, W, M))

-----------------------------------------------------------------------------
(* The inputs: configuration documents and requests.                       *)

\* the float n/d as a JSON number
N(n, d) == Num(Rat(n, d))

\* weight tables: rows of non-negative weights keyed by factor name
WeightTables ==
    { [objectivity          |-> [Precision |-> R(3), Resolve |-> R(1)],
       clarity_conciseness  |-> [Precision |-> R(1)],
       energy               |-> [Harmony |-> R(1)],
       decision_orientation |-> [Resolve |-> Rat(1, 2), Harmony |-> Rat(1, 2)],
       followup_questions   |-> [Harmony |-> R(1), Precision |-> R(1)],
       novelty_ideation     |-> [Innovation |-> R(1)],
       attention_listening  |-> [Harmony |-> R(1)],
       talk_balance         |-> [Harmony |-> R(1)],
       patience             |-> [Harmony |-> Rat(1, 2), Precision |-> Rat(1, 2)],
       positivity_tone      |-> [Harmony |-> R(1)]],
      [talk_balance         |-> [Harmony |-> R(0)],
       energy               |-> [Resolve |-> R(2)],
       positivity_tone      |-> [Harmony |-> R(1), Innovation |-> R(3)],
       wpm                  |-> [Precision |-> R(1)]] }

\* multiplier tables: positive constants per rank label
MultiplierTables ==
    { [primary |-> Rat(3, 2), secondary |-> Rat(6, 5), tertiary |-> R(1), quaternary |-> Rat(4, 5)],
      [primary |-> R(1), secondary |-> R(1), tertiary |-> R(1), quaternary |-> R(1)] }

Pattern(id, name, order) == [id |-> id, name |-> name, order |-> order]

\* pattern catalogs, in file order
Catalogs ==
    { << Pattern("1",  "Analyst",    <<"Precision", "Resolve", "Innovation", "Harmony">>),
         Pattern("2",  "Driver",     <<"Resolve", "Precision", "Innovation", "Harmony">>),
         Pattern("15", "Harmonizer", <<"Harmony", "Innovation", "Resolve", "Precision">>),
         Pattern("16", "Mediator",   <<"Harmony", "Precision", "Resolve", "Innovation">>) >>,
      << Pattern("7",  "Explorer",   <<"Innovation", "Harmony", "Precision", "Resolve">>),
         Pattern("3",  "Analyst",    <<"Precision", "Innovation", "Resolve", "Harmony">>),
         Pattern("9",  "ANALYST",    <<"Harmony", "Resolve", "Precision", "Innovation">>) >> }

Configurations ==
    [weights : WeightTables, multipliers : MultiplierTables, patterns : Catalogs]

\* the fields a Signal Bundle may carry, with the values tried for each
Field(sec, key, val) == [sec |-> sec, key |-> key, val |-> val]

FieldPool ==
    { Field("language", "positivity", N(1, 1)),
      Field("language", "positivity", Str("abc")),
      Field("language", "positivity", Dict([positive |-> N(3, 5), neutral |-> N(1, 5), negative |-> N(1, 5)])),
      Field("language", "positivity_classes", Dict([positive |-> N(1, 2), neutral |-> N(1, 2), negative |-> N(5, 1)])),
      Field("language", "positivity_classes", Dict([negative |-> N(500, 1)])),
      Field("language", "positivity_classes", Dict([negative |-> N(-1, 1)])),
      Field("language", "positivity_classes", Dict([positive |-> Str("abc")])),
      Field("language", "positivity_classes", N(7, 10)),
      Field("language", "polarity", Dict([positive |-> N(1, 1)])),
      Field("language", "objectivity", N(2, 5)),
      Field("language", "objectivity", Dict([objective |-> N(80, 1)])),
      Field("language", "objectivity", Str("abc")),
      Field("language", "filler_ratio", N(1, 10)),
      Field("language", "filler_ratio", JNull),
      Field("language", "avg_sentence_len", N(10, 1)),
      Field("language", "avg_sentence_len", N(30, 1)),
      Field("language", "patience", N(90, 1)),
      Field("language", "patience", Str("abc")),
      Field("language", "keywords", Dict([alpha |-> N(1, 2), beta |-> N(90, 1)])),
      Field("language", "keywords", Dict([alpha |-> Str("x")])),
      Field("language", "keywords", Dict(EmptyDict)),
      Field("language", "lang_emo_curiosity", N(1, 2)),
      Field("language", "question", Str("Question?")),
      Field("language", "question", Str("statement")),
      Field("language", "question", Bool(TRUE)),
      Field("language", "question", N(1, 4)),
      Field("language", "question", JNull),
      Field("language", "question_ratio", N(2, 5)),
      Field("language", "offensiveness", Str("Offensive")),
      Field("language", "offensiveness", Str("clean")),
      Field("language", "offensiveness", N(1, 5)),
      Field("vocal", "energy", N(3, 5)),
      Field("vocal", "energy", N(80, 1)),
      Field("vocal", "energy", N(150, 1)),
      Field("vocal", "energy", Str("abc")),
      Field("vocal", "energy", JNull),
      Field("vocal", "energy", Dict([energetic |-> N(9, 10)])),
      Field("vocal", "energy", Dict([monotonic |-> N(3, 10)])),
      Field("vocal", "energy", Dict([energetic |-> Str("high")])),
      Field("vocal", "emotions", Dict([happy |-> N(1, 2), sad |-> N(1, 5), angry |-> N(1, 10)])),
      Field("vocal", "emotions", Dict([happy |-> N(1, 2)])),
      Field("vocal", "emotions", Dict([neutral |-> N(2, 5)])),
      Field("vocal", "emotions", Dict([sad |-> Str("abc")])),
      Field("facial", "attention", Dict([attentive |-> N(3, 5), normal |-> N(1, 5), distracted |-> N(1, 5)])),
      Field("facial", "attention", Dict([distracted |-> N(3, 10)])),
      Field("facial", "attention", Dict([normal |-> Str("abc")])),
      Field("facial", "emotions", Dict([happy |-> N(7, 10)])),
      Field("facial", "emotions", Dict([neutral |-> N(1, 5), surprised |-> N(1, 10),
                                        dissatisfied |-> N(1, 10), annoyed |-> N(1, 10)])),
      Field("facial", "emotions", Dict([annoyed |-> Str("x")])),
      Field("interaction", "talk_listen", N(1, 2)),
      Field("interaction", "talk_listen", N(3, 10)),
      Field("interaction", "talk_listen", Str("abc")),
      Field("interaction", "speed_wpm", N(120, 1)),
      Field("highlevel", "action_items", N(9, 10)),
      Field("highlevel", "action_items", N(3, 1)),
      Field("highlevel", "followup_questions", N(1, 2)) }

\* the bundle b with one more field
AddField(b, f) ==
    Put(b, f.sec, Dict(Put(IF f.sec \in DOMAIN b THEN b[f.sec].m ELSE EmptyDict, f.key, f.val)))

HasField(b, f) == f.sec \in DOMAIN b /\ f.key \in DOMAIN b[f.sec].m

\* a Signal Bundle carries at most this many fields
MaxFields == 1

RECURSIVE BundlesUpTo(_)
BundlesUpTo(k) ==
    IF k = 0 THEN {EmptyDict}
    ELSE LET prev == BundlesUpTo(k - 1)
         IN  prev \cup {AddField(b, f) : <<b, f>> \in {x \in prev \X FieldPool : ~HasField(x[1], x[2])}}

\* a bundle with many fields: normalize_metrics rewrites question, question_ratio,
\* offensiveness and energy in its locals, and several metrics feed the same factor
FullBundle ==
    [language |-> Dict([question |-> Str("Question?"), offensiveness |-> Str("Offensive"),
                        positivity |-> N(1, 1), objectivity |-> N(9, 10),
                        filler_ratio |-> N(1, 10), avg_sentence_len |-> N(25, 1)]),
     vocal |-> Dict([energy |-> Dict([energetic |-> N(9, 10)])]),
     interaction |-> Dict([talk_listen |-> N(1, 2)]),
     highlevel |-> Dict([action_items |-> N(9, 10), followup_questions |-> N(4, 5)])]

\* bundles with several fields, and with sections that are null or empty
RichBundles ==
    { FullBundle,
      [language |-> JNull, vocal |-> Dict(EmptyDict)],
      [facial |-> Dict([attention |-> Dict([attentive |-> N(1, 1), distracted |-> N(0, 1)])]),
       interaction |-> Dict([talk_listen |-> N(1, 2)]),
       language |-> Dict([patience |-> N(180, 1), positivity |-> N(1, 1)])] }

Bundles == BundlesUpTo(MaxFields) \cup RichBundles

\* the bundles every pattern selector is tried with
ProbeBundles == {EmptyDict} \cup RichBundles

Request(spiky, id, name, order) ==
    [spiky |-> spiky, pattern_id |-> id, pattern_name |-> name, bcat_pattern |-> order]

\* pattern ids tried: -1 .. MaxPatternId
MaxPatternId == 16

PatternNames == {"", "analyst", "ANALYST", "Harmonizer", "nobody"}

PatternOrders ==
    { <<>>,
      <<"Harmony", "Resolve", "Precision", "Innovation">>,
      <<"Precision", "Precision", "Resolve", "Innovation">>,
      <<"Precision", "Resolve", "Innovation">>,
      <<"Precision", "Resolve", "Innovation", "Calm">>,
      <<"Precision", "Resolve", "Calm", "Innovation", "Harmony">>,
      <<"Precision", "Resolve", "Innovation", "Harmony", "Harmony">>,
      <<"Precision">> }

\* [pattern_id, pattern_name, bcat_pattern] as a client may send them
Selectors ==
    {<<NoneOpt, NoneOpt, NoneOpt>>}
    \cup {<<Some(i), NoneOpt, NoneOpt>> : i \in (-1)..MaxPatternId}
    \cup {<<NoneOpt, Some(n), NoneOpt>> : n \in PatternNames}
    \cup {<<NoneOpt, NoneOpt, Some(o)>> : o \in PatternOrders}
    \cup {<<Some(i), Some(n), NoneOpt>> : i \in {0, 1, 99}, n \in {"driver", "nobody"}}
    \cup {<<Some(i), NoneOpt, Some(o)>> : i \in {1, 99}, o \in {<<>>, <<"Precision">>}}

ProbeRequests == {Request(b, s[1], s[2], s[3]) : <<b, s>> \in ProbeBundles \X Selectors}

Requests == {Request(b, NoneOpt, NoneOpt, NoneOpt) : b \in Bundles} \cup ProbeRequests

\* the requests whose response is remembered and compared with a later one; they
\* are also the requests that may follow once one is remembered
RepeatRequests ==
    {Request(b, s[1], s[2], s[3]) : <<b, s>> \in {EmptyDict, FullBundle} \X
        {<<NoneOpt, NoneOpt, NoneOpt>>, <<Some(15), NoneOpt, NoneOpt>>,
         <<NoneOpt, Some("analyst"), NoneOpt>>, <<NoneOpt, NoneOpt, Some(<<"Precision">>)>>}}

-----------------------------------------------------------------------------
(* The worker's polling loop (worker/worker.py).                           *)

\* modification times tried: 1 .. MaxMtime
MaxMtime == 2

\* the names that can be regular files of IN_DIR, and a subdirectory of it
FileNames == {"a.mp4", "b.txt"}
DirNames == {"sub"}

\* the entries of IN_DIR in the order sorted() gives them
EntryOrder == <<"a.mp4", "b.txt", "sub">>

\* a file version: a name together with a modification time
Versions == FileNames \X (1..MaxMtime)

NoVersion == <<"", 0>>

\* p.is_file(): the entry is a regular file that exists now
is_file(p) == p \in FileNames /\ files[p] # 0

\* sorted(IN_DIR.glob("*")): the entries that exist when the pass starts
Listing == SelectSeq(EntryOrder, LAMBDA p : p \in DirNames \/ is_file(p))

\* str() of the float st_mtime
MtimeStr(m) == ToString(m) \o ".0"

\* key = f"{p.name}:{mtime}"
Key(name, mtime) == name \o ":" \o MtimeStr(mtime)

\* the loop goes on without recording the key
MarkNothing(s, key) == s

\* seen[key] = time.time()
MarkSeen(s, key) == s \cup {key}

WorkerStart ==
    /\ files = [n \in FileNames |-> 0]
    /\ seen = {}
    /\ wpc = "sleep"
    /\ todo = <<>>
    /\ job = NoVersion
    /\ handed = [v \in Versions |-> 0]
    /\ failures = {}
    /\ skipped = NoVersion

\* time.sleep(poll) returns and the next pass lists IN_DIR
Wake ==
    /\ wpc = "sleep"
    /\ todo' = Listing
    /\ wpc' = "is_file"
    /\ UNCHANGED <<files, seen, job, handed, failures, skipped>>

\* the for loop is exhausted: the pass ends and the worker sleeps
EndPass ==
    /\ wpc = "is_file" /\ todo = <<>>
    /\ wpc' = "sleep"
    /\ UNCHANGED <<files, seen, todo, job, handed, failures, skipped>>

\* if not p.is_file(): continue
IsFile ==
    /\ wpc = "is_file" /\ todo # <<>>
    /\ IF is_file(Head(todo))
       THEN wpc' = "stat" /\ todo' = todo
       ELSE wpc' = "is_file" /\ todo' = Tail(todo)
    /\ UNCHANGED <<files, seen, job, handed, failures, skipped>>

\* mtime = p.stat().st_mtime; key = ...; if key in seen: continue; seen[key] = ...
\* A file removed since is_file() makes stat() raise: the except of the loop ends
\* the pass.
Stat ==
    /\ wpc = "stat"
    /\ LET p == Head(todo)
           mtime == files[p]
       IN  IF mtime = 0
           THEN /\ wpc' = "sleep" /\ todo' = <<>>
                /\ UNCHANGED <<seen, job, skipped>>
           ELSE IF Key(p, mtime) \in seen
           THEN /\ wpc' = "is_file" /\ todo' = Tail(todo)
                /\ skipped' = <<p, mtime>>
                /\ UNCHANGED <<seen, job>>
           ELSE /\ seen' = MarkSeen(seen, Key(p, mtime))
                /\ job' = <<p, mtime>>
                /\ wpc' = "process"
                /\ UNCHANGED <<todo, skipped>>
    /\ UNCHANGED <<files, handed, failures>>

\* what a call of process_input can come to: the report is written ("ok"), the
\* *.failed file is written ("failed"), or writing that file raises ("raised")
Outcomes == {"ok", "failed", "raised"}

\* process_input(p); an exception out of it ends the pass
Process(outcome) ==
    /\ wpc = "process"
    /\ handed' = [handed EXCEPT ![job] = @ + 1]
    /\ failures' = IF outcome = "ok" THEN failures ELSE failures \cup {job}
    /\ job' = NoVersion
    /\ IF outcome = "raised"
       THEN wpc' = "sleep" /\ todo' = <<>>
       ELSE wpc' = "is_file" /\ todo' = Tail(todo)
    /\ UNCHANGED <<files, seen, skipped>>

\* someone drops a file into IN_DIR, or writes it again: its st_mtime becomes m
WriteFile(n, m) ==
    /\ files[n] # m
    /\ files' = [files EXCEPT ![n] = m]
    /\ UNCHANGED <<seen, wpc, todo, job, handed, failures, skipped>>

\* someone removes a file from IN_DIR
RemoveFile(n) ==
    /\ files[n] # 0
    /\ files' = [files EXCEPT ![n] = 0]
    /\ UNCHANGED <<seen, wpc, todo, job, handed, failures, skipped>>

-----------------------------------------------------------------------------
(* The service as a state machine: a request arrives, the handler answers. *)

NoRequest == Request(EmptyDict, NoneOpt, NoneOpt, NoneOpt)
NoResponse == [status |-> 0, body |-> EmptyDict]

\* the service before its first request, with the configuration c
ServiceStart(c) ==
    /\ weights = c.weights
    /\ multipliers = c.multipliers
    /\ patterns = c.patterns
    /\ installed = c
    /\ req = NoRequest
    /\ submitted = EmptyDict
    /\ pc = "idle"
    /\ resp = NoResponse
    /\ runs = <<>>
    /\ earlier = NoneOpt

Init == (\E c \in Configurations : ServiceStart(c)) /\ WorkerStart

\* a client posts r to /score
Receive(r) ==
    /\ pc = "idle"
    /\ earlier = NoneOpt \/ r \in RepeatRequests
    /\ req' = r
    /\ submitted' = r.spiky
    /\ pc' = "received"
    /\ resp' = NoResponse
    /\ runs' = <<>>
    /\ UNCHANGED <<weights, multipliers, patterns, installed, earlier, wvars>>

\* score(req) runs to its return or to its HTTPException; every stage loads its
\* table from the configuration store
Handle ==
    /\ pc = "received"
    /\ \E o \in {score(req, patterns, weights, multipliers)} :
           /\ resp' = o.resp
           /\ runs' = o.runs
           /\ req' = [req EXCEPT !.spiky = o.spiky]
    /\ pc' = "done"
    /\ UNCHANGED <<weights, multipliers, patterns, installed, submitted, earlier, wvars>>

\* the request as the client sent it
Sent == [req EXCEPT !.spiky = submitted]

\* the response goes out and the worker is free again
Deliver ==
    /\ pc = "done"
    /\ pc' = "idle"
    /\ req' = NoRequest
    /\ submitted' = EmptyDict
    /\ resp' = NoResponse
    /\ runs' = <<>>
    /\ UNCHANGED <<weights, multipliers, patterns, installed, earlier, wvars>>

\* the client keeps a request and its response, to compare with a later one
Remember ==
    /\ pc = "done"
    /\ earlier = NoneOpt
    /\ Sent \in RepeatRequests
    /\ earlier' = Some([req |-> Sent, resp |-> resp])
    /\ UNCHANGED <<weights, multipliers, patterns, installed, req, submitted, pc, resp, runs, wvars>>

Next ==
    \/ \E r \in Requests : Receive(r)
    \/ Handle
    \/ Deliver
    \/ Remember

Spec == Init /\ [][Next]_vars

\* the worker process alone: the loop and whoever writes to IN_DIR
WorkerInit == ServiceStart(CHOOSE c \in Configurations : TRUE) /\ WorkerStart

WorkerNext ==
    \/ Wake /\ UNCHANGED svars
    \/ EndPass /\ UNCHANGED svars
    \/ IsFile /\ UNCHANGED svars
    \/ Stat /\ UNCHANGED svars
    \/ \E o \in Outcomes : Process(o) /\ UNCHANGED svars
    \/ \E n \in FileNames, m \in 1..MaxMtime : WriteFile(n, m) /\ UNCHANGED svars
    \/ \E n \in FileNames : RemoveFile(n) /\ UNCHANGED svars

WorkerSpec == WorkerInit /\ [][WorkerNext]_vars
-----------------------------------------------------------------------------
(* Properties.                                                             *)

Answered == pc = "done"
Succeeded == pc = "done" /\ resp.status = 200
Failed == pc = "done" /\ resp.status = 400

\* the request takes the single-pattern branch of the handler
SinglePattern(r) == IdTruthy(r.pattern_id) \/ NameTruthy(r.pattern_name) \/ ListTruthy(r.bcat_pattern)

\* order is a permutation of exactly the four factor names
IsPermutation(order) == Len(order) = 4 /\ {order[i] : i \in 1..Len(order)} = FactorSet

\* the stages of run that returned
Returned(run) == {run.ran[i] : i \in 1..Len(run.ran)} \ {run.failed}

InRange(x) == ~IsNone(x) /\ RLe(R(0), x) /\ RLe(x, R(100))

\* C1: a request whose literal ordering bcat_pattern is not a permutation of the
\* four factor names is answered with an error, never with a successful result.
C1_MalformedOrderingFails ==
    (Answered /\ ListTruthy(Sent.bcat_pattern) /\ ~IsPermutation(Sent.bcat_pattern[1]))
        => resp.status = 400

\* the request names its pattern by a (non-zero) id only, and the id is no key of
\* the catalog
UnknownId(r) ==
    /\ IdTruthy(r.pattern_id) /\ r.pattern_name = NoneOpt /\ r.bcat_pattern = NoneOpt
    /\ ToString(r.pattern_id[1]) \notin PatternKeys(patterns)

\* the request names its pattern by a (non-empty) name only, and no catalog entry
\* has the name
UnknownName(r) ==
    /\ r.pattern_id = NoneOpt /\ NameTruthy(r.pattern_name) /\ r.bcat_pattern = NoneOpt
    /\ NameMatches(patterns, r.pattern_name[1]) = {}

\* C2: a request whose pattern selector cannot be resolved (an id that is no catalog
\* key, a name that matches no entry) is answered with a client-visible failure.
C2_UnresolvedSelectorFails ==
    (Answered /\ (UnknownId(Sent) \/ UnknownName(Sent))) => resp.status = 400

\* the catalog keys of the entries of `all` whose alignment_pct is the greatest
Maxima(all) == {k \in DOMAIN all : \A j \in DOMAIN all : RLe(all[j].alignment_pct, all[k].alignment_pct)}

\* the first key, in catalog order, among keys
FirstKey(P, keys) == P[CHOOSE i \in 1..Len(P) : P[i].id \in keys /\ \A j \in 1..(i - 1) : P[j].id \notin keys].id

\* C3: best-of-catalog scoring returns a `best` whose alignment_pct is at least that
\* of every entry of `all`, and `best` is the first entry in catalog order that
\* reaches the maximum.
C3_BestIsFirstMaximum ==
    (Succeeded /\ ~SinglePattern(Sent)) =>
        LET all  == resp.body.all
            best == resp.body.best[1]
        IN  /\ \A k \in DOMAIN all : RLe(all[k].alignment_pct, best.alignment_pct)
            /\ best = all[FirstKey(patterns, Maxima(all))]

\* best-of-catalog scoring returned, two entries tie at the maximum, the first of
\* them is not the first of the catalog, and another entry scores lower
C3_Witness ==
    /\ Succeeded /\ ~SinglePattern(Sent)
    /\ Cardinality(Maxima(resp.body.all)) >= 2
    /\ Maxima(resp.body.all) # DOMAIN resp.body.all
    /\ patterns[1].id \notin Maxima(resp.body.all)

\* C4: normalize_metrics never raises, whatever the fields of the bundle hold.
C4_NormalizeNeverRaises ==
    \A i \in 1..Len(runs) : runs[i].failed # "normalize_metrics"

\* C5: every value of the Normalized Sub-Metric Set normalize_metrics returns is a
\* number in [0, 100]: none is None, none is below 0 or above 100.
C5_NormalizedInRange ==
    \A i \in 1..Len(runs) :
        "normalize_metrics" \in Returned(runs[i]) =>
            \A k \in DOMAIN runs[i].s_norm : InRange(runs[i].s_norm[k])

\* the curated metrics of run that have a row with factor f
Contributors(run, f) == {m \in DOMAIN run.s_cur \cap DOMAIN weights : f \in DOMAIN weights[m]}

\* the total of factor f in base_factors before it is clamped
RawBase(run, f) ==
    SumOver(Contributors(run, f),
            [m \in Contributors(run, f) |-> Contribution(run.s_cur, weights, m, f)])

\* C6: the vector base_factors returns and the vector apply_pattern returns for a
\* valid pattern hold exactly the four factors, each in [0, 100]; a factor no
\* curated metric contributes to has base score 0.
C6_FactorVectorsInRange ==
    \A i \in 1..Len(runs) :
        /\ "base_factors" \in Returned(runs[i]) =>
              /\ DOMAIN runs[i].bases = FactorSet
              /\ \A f \in FactorSet : InRange(runs[i].bases[f])
              /\ \A f \in FactorSet : Contributors(runs[i], f) = {} => runs[i].bases[f] = R(0)
        /\ ("apply_pattern" \in Returned(runs[i]) /\ IsPermutation(runs[i].order)) =>
              /\ DOMAIN runs[i].scores = FactorSet
              /\ \A f \in FactorSet : InRange(runs[i].scores[f])

\* a run for a valid pattern in which one factor's total exceeds 100 before the
\* clamp, one factor's product with its multiplier exceeds 100, and one factor
\* has no contributing metric
C6_Witness ==
    \E i \in 1..Len(runs) :
        /\ runs[i].failed = "" /\ IsPermutation(runs[i].order)
        /\ \E f \in FactorSet : RLt(R(100), RawBase(runs[i], f))
        /\ \E f \in FactorSet :
              /\ RLt(runs[i].bases[f], R(100))
              /\ RLt(R(100), RMul(runs[i].bases[f], multipliers[RankLabel(runs[i].order, f)]))
        /\ \E f \in FactorSet : Contributors(runs[i], f) = {}

CatalogOrders == {patterns[i].order : i \in 1..Len(patterns)}

\* C7: for the empty bundle {} and every pattern of the catalog, scoring completes
\* without error with an empty curated metric set, all four factor scores 0 and
\* alignment_pct 0; best-of-catalog scoring of {} returns the first catalog entry.
C7_EmptyBundleScoresZero ==
    (Answered /\ submitted = EmptyDict) =>
        /\ \A i \in 1..Len(runs) :
              runs[i].order \in CatalogOrders =>
                 /\ runs[i].failed = ""
                 /\ runs[i].s_cur = EmptyDict
                 /\ runs[i].scores = ZeroVector
                 /\ runs[i].result.factors = LowerKeys(ZeroVector)
                 /\ runs[i].result.alignment_pct = R(0)
        /\ ~SinglePattern(Sent) =>
              /\ resp.status = 200
              /\ Len(runs) = Len(patterns)
              /\ resp.body.best = Some(resp.body.all[patterns[1].id])

\* {} was scored against the whole catalog
C7_Witness ==
    /\ Succeeded /\ submitted = EmptyDict /\ ~SinglePattern(Sent)
    /\ Len(runs) >= 3
    /\ resp.body.best[1].pattern.order = patterns[1].order

\* the selector of r is one the handler must reject: a literal ordering that is no
\* permutation of the factors, or else a name that matches no catalog entry (with
\* no usable id)
InvalidSelector(r) ==
    IF ListTruthy(r.bcat_pattern) THEN ~IsPermutation(r.bcat_pattern[1])
    ELSE /\ NameTruthy(r.pattern_name)
         /\ NameMatches(patterns, r.pattern_name[1]) = {}
         /\ ~(IdTruthy(r.pattern_id) /\ ToString(r.pattern_id[1]) \in PatternKeys(patterns))

\* C8: when the pattern selector is invalid the error is raised before any pipeline
\* stage has run.
C8_FailsBeforeAnyStage ==
    (Failed /\ InvalidSelector(Sent)) => \A i \in 1..Len(runs) : runs[i].ran = <<>>

\* C9 as stated: a successful response carries an `all` entry exactly when the
\* request chose no pattern (best-of-catalog scoring), then with one entry per
\* catalog id; a single-pattern response has no `all` entry.
C9_AllOnlyForCatalogSearch ==
    Succeeded =>
        /\ ("all" \in DOMAIN resp.body) <=> ~SinglePattern(Sent)
        /\ ~SinglePattern(Sent) => DOMAIN resp.body.all = PatternKeys(patterns)

\* C9 as the code has it: every successful response carries an `all` mapping; it has
\* exactly one entry per catalog id when the handler searched the catalog (no
\* selector, or only the selectors 0, "" and []), and is empty for a single pattern.
C9_AllEmptyForSinglePattern ==
    Succeeded =>
        /\ "all" \in DOMAIN resp.body
        /\ IF SinglePattern(Sent)
           THEN resp.body.all = EmptyDict
           ELSE DOMAIN resp.body.all = PatternKeys(patterns)

\* a single-pattern response and its empty `all`
C9_Witness ==
    /\ Succeeded /\ SinglePattern(Sent) /\ resp.body.all = EmptyDict
    /\ resp.body.best[1].pattern.name = "custom"

SuppliedEmotions(sec) ==
    IF sec \in DOMAIN submitted /\ submitted[sec].t = "dict"
    THEN Get(submitted[sec].m, "emotions") ELSE JNull

\* the emotions mapping of section sec is supplied and names none of classes
BucketAbsent(sec, classes) ==
    /\ SuppliedEmotions(sec).t = "dict"
    /\ DOMAIN SuppliedEmotions(sec).m # {}
    /\ DOMAIN SuppliedEmotions(sec).m \cap classes = {}

\* C11: in normalize_metrics an emotion bucket whose class fields are all absent
\* from the supplied emotions mapping produces no sub-metric key: no emo_neg_inv
\* without sad and angry, no facial_emo_neu without neutral and surprised, no
\* facial_emo_dis_inv without dissatisfied and annoyed.
C11_AbsentBucketsOmitted ==
    \A i \in 1..Len(runs) :
        "normalize_metrics" \in Returned(runs[i]) =>
            /\ BucketAbsent("vocal", {"sad", "angry"}) =>
                  "emo_neg_inv" \notin DOMAIN runs[i].s_norm
            /\ BucketAbsent("facial", {"neutral", "surprised"}) =>
                  "facial_emo_neu" \notin DOMAIN runs[i].s_norm
            /\ BucketAbsent("facial", {"dissatisfied", "annoyed"}) =>
                  "facial_emo_dis_inv" \notin DOMAIN runs[i].s_norm

\* the share of metric m's row that goes to factor f: the row weight for f divided
\* by the sum of the row's weights, or by 1 when they sum to 0
RowShare(m, f) ==
    LET row == weights[m]
        sum == SumOver(DOMAIN row, row)
    IN  IF f \notin DOMAIN row THEN R(0)
        ELSE RDiv(row[f], IF sum = R(0) THEN R(1) ELSE sum)

\* the sum over the curated metrics of cur that have a row, of score times share
WeightedSum(cur, f) ==
    SumOver(CuratedNames,
            [m \in CuratedNames |->
                IF m \in DOMAIN cur /\ m \in DOMAIN weights
                THEN RMul(cur[m], RowShare(m, f)) ELSE R(0)])

\* the bundle {"interaction": {"talk_listen": 0.5}}
TalkOnlyBundle == [interaction |-> Dict([talk_listen |-> N(1, 2)])]

\* the weight table maps talk_balance to Harmony and to no other factor
TalkFullyHarmony ==
    /\ "talk_balance" \in DOMAIN weights
    /\ DOMAIN weights["talk_balance"] = {"Harmony"}
    /\ weights["talk_balance"]["Harmony"] # R(0)

\* C12: base_factors gives each factor the sum, clamped to [0, 100], over the
\* curated metrics that have a row, of metric score times (row weight for the
\* factor / sum of the row's weights, divisor 1 when the row sums to 0); the bundle
\* {"interaction": {"talk_listen": 0.5}} gives curated {talk_balance: 100} and, when
\* the table maps talk_balance only to Harmony, bases 0, 0, 0 and Harmony 100.
C12_BaseIsClampedWeightedSum ==
    \A i \in 1..Len(runs) :
        "base_factors" \in Returned(runs[i]) =>
            /\ \A f \in FactorSet :
                  runs[i].bases[f] = RMax(R(0), RMin(R(100), WeightedSum(runs[i].s_cur, f)))
            /\ submitted = TalkOnlyBundle =>
                  /\ runs[i].s_cur = [talk_balance |-> R(100)]
                  /\ TalkFullyHarmony =>
                        runs[i].bases = [Precision |-> R(0), Resolve |-> R(0),
                                         Innovation |-> R(0), Harmony |-> R(100)]

\* the talk_listen bundle was scored under a table that maps talk_balance only to
\* Harmony
C12_Witness ==
    /\ submitted = TalkOnlyBundle /\ TalkFullyHarmony
    /\ \E i \in 1..Len(runs) :
          /\ "base_factors" \in Returned(runs[i])
          /\ runs[i].bases["Harmony"] = R(100)

\* C13: in the worker's polling loop each version of an input file (name and
\* modification time) is handed to process_input at most once, whether it succeeded
\* or failed; its key is recorded as seen before it is processed.
C13_EachVersionHandedOnce ==
    /\ \A v \in Versions : handed[v] <= 1
    /\ \A v \in Versions : handed[v] > 0 => Key(v[1], v[2]) \in seen
    /\ wpc = "process" => Key(job[1], job[2]) \in seen

\* a version whose processing failed was met again by a later pass and passed over,
\* and the same file was processed under both of two modification times
C13_Witness ==
    /\ skipped \in failures
    /\ handed[skipped] = 1
    /\ \E v \in Versions : v[1] = skipped[1] /\ v[2] # skipped[2] /\ handed[v] = 1

====
